---- MODULE Spec2Model ----
(***************************************************************************)
(* UART baudrate detection (ASCII) of owfmodules.uart.baudrates:           *)
(* BaudrateAscii.run and everything it calls, as a state machine.          *)
(*                                                                         *)
(* Python strings are sequences of one-character strings, so that upper(), *)
(* split(), strip() and int() are computed rather than assumed.  An option *)
(* that holds either "" or an integer (reset_pin) is <<>> when it is ""    *)
(* and <<n>> when it is the integer n.                                     *)
(***************************************************************************)
EXTENDS Integers, Sequences, FiniteSets, TLC

(***************************************************************************)
(* Bounds of the model.                                                    *)
(***************************************************************************)
\* Bytes the Octowire can hold for the host before the target must wait.
MaxBuf == 1
\* Largest baudrate offered as baudrate_min / baudrate_max.
MaxBaud == 3

(***************************************************************************)
(* str.upper(), str.split(","), str.strip(), int(str)                      *)
(***************************************************************************)
LowerCase == <<"a","b","c","d","e","f","g","h","i","j","k","l","m",
               "n","o","p","q","r","s","t","u","v","w","x","y","z">>

UpperCase == <<"A","B","C","D","E","F","G","H","I","J","K","L","M",
               "N","O","P","Q","R","S","T","U","V","W","X","Y","Z">>

UpperChar(c) ==
    IF \E i \in 1..26 : LowerCase[i] = c
    THEN UpperCase[CHOOSE i \in 1..26 : LowerCase[i] = c]
    ELSE c

Upper(s) == [i \in 1..Len(s) |-> UpperChar(s[i])]

RECURSIVE SplitAcc(_, _, _)
SplitAcc(s, cur, acc) ==
    IF s = <<>> THEN Append(acc, cur)
    ELSE IF Head(s) = "," THEN SplitAcc(Tail(s), <<>>, Append(acc, cur))
    ELSE SplitAcc(Tail(s), Append(cur, Head(s)), acc)

\* s.split(","): never empty, "".split(",") is [""].
Split(s) == SplitAcc(s, <<>>, <<>>)

RECURSIVE LStrip(_)
LStrip(s) == IF s # <<>> /\ Head(s) = " " THEN LStrip(Tail(s)) ELSE s

RECURSIVE RStrip(_)
RStrip(s) ==
    IF s # <<>> /\ s[Len(s)] = " " THEN RStrip(SubSeq(s, 1, Len(s) - 1)) ELSE s

Strip(s) == RStrip(LStrip(s))

Digits == <<"0","1","2","3","4","5","6","7","8","9">>

IsDigit(c) == \E i \in 1..10 : Digits[i] = c

DigitValue(c) == (CHOOSE i \in 1..10 : Digits[i] = c) - 1

RECURSIVE DigitsValue(_)
DigitsValue(s) ==
    IF s = <<>> THEN 0
    ELSE 10 * DigitsValue(SubSeq(s, 1, Len(s) - 1)) + DigitValue(s[Len(s)])

\* Whether int(s) returns: optional surrounding blanks, optional sign, digits.
IntParses(s) ==
    LET t == Strip(s)
        d == IF t # <<>> /\ Head(t) \in {"+", "-"} THEN Tail(t) ELSE t
    IN  d # <<>> /\ \A i \in 1..Len(d) : IsDigit(d[i])

\* int(s) where it returns.
IntOf(s) ==
    LET t == Strip(s)
        neg == t # <<>> /\ Head(t) = "-"
        d == IF t # <<>> /\ Head(t) \in {"+", "-"} THEN Tail(t) ELSE t
    IN  IF neg THEN 0 - DigitsValue(d) ELSE DigitsValue(d)

RECURSIVE RangeInclusive(_, _, _)
RangeInclusive(a, b, s) ==
    IF (s > 0 /\ a <= b) \/ (s < 0 /\ a >= b)
    THEN <<a>> \o RangeInclusive(a + s, b, s)
    ELSE <<>>

\* range(a, b, s) as the list of its values; s # 0.
RECURSIVE Range(_, _, _)
Range(a, b, s) ==
    IF (s > 0 /\ a < b) \/ (s < 0 /\ a > b)
    THEN <<a>> \o Range(a + s, b, s)
    ELSE <<>>

(***************************************************************************)
(* Literals of the source                                                  *)
(***************************************************************************)
LOW == <<"L","O","W">>
HIGH == <<"H","I","G","H">>
INCREMENTAL == <<"I","N","C","R","E","M","E","N","T","A","L">>
LIST == <<"L","I","S","T">>
KEY_Y == <<"Y">>
KEY_C == <<"C">>

\* process_baudrate: threshold = 20
threshold == 20
\* process_baudrate: "loop < 3", the trigger attempts of one candidate
MaxTriggers == 3
\* check_options: range(0, 15)
GpioPins == 15

\* chr(n): the one-character str of code point n.
Chr(n) == [type |-> "str", v |-> n]

\* bytes([n]): the bytes object holding the single byte n.
Bytes1(n) == [type |-> "bytes", v |-> n]

extended_asciitable_with_del ==
    {Chr(n) : n \in 32..127} \cup {Chr(13), Chr(10), Chr(9), Chr(27)}

\* self.extended_asciitable: list(map(chr, range(0x20, 127))) + "\r\n\t" + chr(0x1b)
extended_asciitable == {Chr(n) : n \in 32..126} \cup {Chr(13), Chr(10), Chr(9), Chr(27)}

\* tmp.decode('utf-8') of one byte: its character below 0x80, UnicodeDecodeError
\* from 0x80 on, where the code keeps the bytes object itself.
Decode(t) == IF t.v < 128 THEN Chr(t.v) ELSE t

IsValidCharUndecoded(t) == t \in extended_asciitable

\* "byte in self.extended_asciitable"
IsValidChar(t) == Decode(t) \in extended_asciitable

(***************************************************************************)
(* The inputs of a run                                                     *)
(***************************************************************************)
\* options["mode"]: two valid spellings and an invalid one.
Modes == { <<"i","n","c","r","e","m","e","n","t","a","l">>,
           <<"L","i","s","t">>,
           <<"s","e","r","i","a","l">> }

\* options["reset_pin"]: "", the last valid pin, the first invalid one.
ResetPins == { <<>>, <<GpioPins - 1>>, <<GpioPins>> }

\* advanced_options["reset_pol"]
Polarities == { <<"l","o","w">>, <<"H","i","g","h">>, <<"u","p">> }

\* advanced_options["baudrate_list"]: "3,1"  "2, 2"  "1,x"  ","
BaudrateLists == { <<"3",",","1">>, <<"2",","," ","2">>, <<"1",",","x">>, <<",">> }

\* advanced_options["baudrate_inc"]: negative, zero, positive.
Increments == {0 - 1, 0, 1, 2}

\* What the prompt can return.
Responses == { <<"y">>, <<"Y">>, <<"c">>, <<"C">>, <<"n">>, <<>>, <<"y","e","s">> }

\* The byte values the target puts on the line: CR, 'A', NUL, 0x80.
StreamBytes == {13, 65, 0, 128}

\* The level of a GPIO whose status was never written.
Unwritten == 0 - 1

NoByte == [type |-> "none", v |-> Unwritten]

VARIABLES
    options,            \* self.options: mode, reset_pin, trigger
    advanced_options,   \* self.advanced_options: reset_pol, baudrate_*
    pc,                 \* the statement run() is at
    owf_serial,         \* "none" | "open" | "closed"
    uart_instance,      \* "None" | "UART"
    reset_pin,          \* self.reset_pin: None, or the GPIO with its direction and status
    candidates,         \* the sequence the for loop of the mode iterates over
    idx,                \* how many of them the loop has taken
    baudrate,           \* the loop variable
    count, loop,        \* process_baudrate's locals
    tmp,                \* the bytes object receive(1) returned, until it is classified
    resp,               \* the operator's answer
    ret,                \* what change_baudrate / process_baudrate returned last
    in_waiting,         \* what uart_instance.in_waiting() returns: the bytes the UART holds
    clock,              \* the baudrate the UART is configured to, 0 before any
    session,            \* uart_pt_miniterm: "none" | "passthrough" | "miniterm"
    lastlog,            \* the last message given to logger.handle
    polls, reads, tx,   \* wait_bytes / receive(1) / transmit calls of this candidate's probe
    pulse,              \* level writes and sleeps of the last reset_target call
    tested,             \* the baudrates change_baudrate was called with
    hw,                 \* whether the UART or a GPIO was used since connect
    errAt,              \* <<statement, idx>> of the exception this candidate raised, <<>> if none
    stale               \* how many of the bytes the UART holds arrived before the clock
                        \* of the candidate the loop is at was configured

vars == <<options, advanced_options, pc, owf_serial, uart_instance, reset_pin,
          candidates, idx, baudrate, count, loop, tmp, resp, ret, in_waiting, clock,
          session, lastlog, polls, reads, tx, pulse, tested, hw, errAt, stale>>

\* The options are read, never written.
cfgVars == <<options, advanced_options>>
\* The locals and counters of one candidate's probe.
probeVars == <<count, loop, tmp, polls, reads, tx>>
\* The sweep's position.
sweepVars == <<candidates, idx, baudrate, tested>>

None == [none |-> TRUE, direction |-> "IN", status |-> Unwritten]

\* The option sets a run starts with: only the options the mode reads vary.
OptionSets ==
    { o \in [mode : Modes, reset_pin : ResetPins, trigger : BOOLEAN] : TRUE }

AdvancedSets(o) ==
    LET incr == Upper(o.mode) = INCREMENTAL
        list == Upper(o.mode) = LIST
    IN  { a \in [reset_pol : Polarities,
                  baudrate_min : 1..MaxBaud, baudrate_max : 1..MaxBaud,
                  baudrate_inc : Increments, baudrate_list : BaudrateLists] :
            /\ o.reset_pin = <<>> => a.reset_pol = <<"l","o","w">>
            /\ ~incr => (a.baudrate_min = 1 /\ a.baudrate_max = MaxBaud
                          /\ a.baudrate_inc = 1)
            /\ ~list => a.baudrate_list = <<"3",",","1">> }

\* The state __init__ leaves, but for the options the user sets afterwards.
Constructed ==
    /\ pc = "connect"
    /\ owf_serial = "none"
    /\ uart_instance = "None"
    /\ reset_pin = None
    /\ candidates = <<>>
    /\ idx = 0
    /\ baudrate = 0
    /\ count = 0
    /\ loop = 0
    /\ tmp = NoByte
    /\ resp = <<>>
    /\ ret = FALSE
    /\ in_waiting = 0
    /\ clock = 0
    /\ session = "none"
    /\ lastlog = ""
    /\ polls = 0
    /\ reads = 0
    /\ tx = 0
    /\ pulse = <<>>
    /\ tested = <<>>
    /\ hw = FALSE
    /\ errAt = <<>>
    /\ stale = 0

Init ==
    /\ options \in OptionSets
    /\ advanced_options \in AdvancedSets(options)
    /\ Constructed

(***************************************************************************)
(* Exceptions.  Every call into the adapter may raise; int() and range()   *)
(* raise ValueError.  change_baudrate catches its own (line 144), every    *)
(* other one unwinds to the except clause of run (line 314).               *)
(***************************************************************************)
\* run, lines 314-315: the error is logged and run returns.
RunExcept(at) ==
    /\ pc' = "done"
    /\ lastlog' = "run: err"
    /\ errAt' = <<at, idx>>

CbExceptUncaught(at) == RunExcept(at) /\ UNCHANGED ret

\* change_baudrate, lines 144-146: the error is logged, False is returned and
\* the for loop of the mode goes on to its next value.
CbExcept(at) ==
    /\ pc' = "for"
    /\ ret' = FALSE
    /\ lastlog' = "change_baudrate: err"
    /\ errAt' = <<at, idx>>

(***************************************************************************)
(* run, lines 300-313                                                      *)
(***************************************************************************)
\* self.connect(); if not self.owf_serial: return
Connect ==
    /\ pc = "connect"
    /\ \E found \in BOOLEAN :
         /\ owf_serial' = IF found THEN "open" ELSE "none"
         /\ pc' = IF found THEN "check_options" ELSE "done"
    /\ UNCHANGED <<cfgVars, uart_instance, reset_pin, sweepVars, probeVars, resp,
                   ret, in_waiting, stale, clock, session, lastlog, pulse, hw, errAt>>

\* check_options, lines 93-113: the message of the check that fails, "" if none.
\* baud_list is never empty (split returns at least [""]) and nothing in the
\* try block raises on a str, so the list is accepted whatever it holds.
CheckOptionsError ==
    LET pin == options.reset_pin
        baud_list == [i \in 1..Len(Split(advanced_options.baudrate_list)) |->
                        Strip(Split(advanced_options.baudrate_list)[i])]
    IN  IF pin # <<>> /\ Upper(advanced_options.reset_pol) \notin {LOW, HIGH}
        THEN "Invalid reset polarity."
        ELSE IF pin # <<>> /\ pin[1] \notin 0..(GpioPins - 1)
        THEN "Invalid reset pin."
        ELSE IF Upper(options.mode) \notin {INCREMENTAL, LIST}
        THEN "Invalid mode option. Please use 'incremental' or 'list'."
        ELSE IF Upper(options.mode) = LIST /\ baud_list = <<>>
        THEN "Empty or invalid baudrate list."
        ELSE ""

\* if self.check_options(): ... else: return
CheckOptions ==
    /\ pc = "check_options"
    /\ IF CheckOptionsError = ""
       THEN pc' = "init" /\ UNCHANGED lastlog
       ELSE pc' = "done" /\ lastlog' = CheckOptionsError
    /\ UNCHANGED <<cfgVars, owf_serial, uart_instance, reset_pin, sweepVars,
                   probeVars, resp, ret, in_waiting, stale, clock, session, pulse, hw, errAt>>

(***************************************************************************)
(* init, lines 253-264                                                     *)
(***************************************************************************)
InitLevelSwapped == IF Upper(advanced_options.reset_pol) = LOW THEN 0 ELSE 1

\* lines 261-264: the level init leaves the line at.
InitLevel == IF Upper(advanced_options.reset_pol) = LOW THEN 1 ELSE 0

\* self.uart_instance = UART(...); self.reset_pin = None; GPIO(...) if defined
InitUart ==
    /\ pc = "init"
    /\ uart_instance' = "UART"
    /\ IF options.reset_pin # <<>>
       THEN /\ reset_pin' = [none |-> FALSE, direction |-> "IN", status |-> Unwritten]
            /\ pc' = "init_direction"
       ELSE /\ reset_pin' = None
            /\ pc' = "start"
    /\ UNCHANGED <<cfgVars, owf_serial, sweepVars, probeVars, resp, ret, in_waiting, stale,
                   clock, session, lastlog, pulse, hw, errAt>>

\* self.reset_pin.direction = GPIO.OUTPUT
InitDirection ==
    /\ pc = "init_direction"
    /\ hw' = TRUE
    /\ \/ /\ reset_pin' = [reset_pin EXCEPT !.direction = "OUT"]
          /\ pc' = "init_status"
          /\ UNCHANGED <<lastlog, errAt>>
       \/ RunExcept("init_direction") /\ UNCHANGED reset_pin
    /\ UNCHANGED <<cfgVars, owf_serial, uart_instance, sweepVars, probeVars, resp,
                   ret, in_waiting, stale, clock, session, pulse>>

\* self.reset_pin.status = 1 for polarity LOW, 0 otherwise
InitStatus ==
    /\ pc = "init_status"
    /\ hw' = TRUE
    /\ \/ /\ reset_pin' = [reset_pin EXCEPT !.status = InitLevel]
          /\ pc' = "start"
          /\ UNCHANGED <<lastlog, errAt>>
       \/ RunExcept("init_status") /\ UNCHANGED reset_pin
    /\ UNCHANGED <<cfgVars, owf_serial, uart_instance, sweepVars, probeVars, resp,
                   ret, in_waiting, stale, clock, session, pulse>>

(***************************************************************************)
(* incremental_mode, lines 271-278, and list_mode, lines 285-290           *)
(***************************************************************************)
\* range(baudrate_min, baudrate_max, baudrate_inc) returns unless the step is 0.
RangeReturns == advanced_options.baudrate_inc # 0

\* [int(b.strip()) for b in baudrate_list.split(",")] returns if every int() does.
ListParses == \A i \in 1..Len(Split(advanced_options.baudrate_list)) :
                  IntParses(Strip(Split(advanced_options.baudrate_list)[i]))

RECURSIVE WithoutDuplicates(_)
WithoutDuplicates(seq) ==
    IF seq = <<>> THEN <<>>
    ELSE LET front == WithoutDuplicates(SubSeq(seq, 1, Len(seq) - 1))
         IN  IF \E i \in 1..Len(front) : front[i] = seq[Len(seq)]
             THEN front
             ELSE Append(front, seq[Len(seq)])

CandidatesOfDeduplicated ==
    IF Upper(options.mode) = INCREMENTAL
    THEN Range(advanced_options.baudrate_min, advanced_options.baudrate_max,
               advanced_options.baudrate_inc)
    ELSE WithoutDuplicates([i \in 1..Len(Split(advanced_options.baudrate_list)) |->
                              IntOf(Strip(Split(advanced_options.baudrate_list)[i]))])

\* The values the for loop of the selected mode iterates over.
CandidatesOf ==
    IF Upper(options.mode) = INCREMENTAL
    THEN Range(advanced_options.baudrate_min, advanced_options.baudrate_max,
               advanced_options.baudrate_inc)
    ELSE [i \in 1..Len(Split(advanced_options.baudrate_list)) |->
            IntOf(Strip(Split(advanced_options.baudrate_list)[i]))]

\* run, lines 306-311: the two headers are logged and the mode is dispatched;
\* the iterable of its for loop is evaluated before the first iteration.
StartSweep ==
    /\ pc = "start"
    /\ IF (Upper(options.mode) = INCREMENTAL /\ RangeReturns)
          \/ (Upper(options.mode) = LIST /\ ListParses)
       THEN /\ candidates' = CandidatesOf
            /\ pc' = "for"
            /\ lastlog' = "Press Ctrl+C to cancel"
            /\ UNCHANGED errAt
       ELSE /\ RunExcept("start")
            /\ UNCHANGED candidates
    /\ UNCHANGED <<cfgVars, owf_serial, uart_instance, reset_pin, idx, baudrate,
                   tested, probeVars, resp, ret, in_waiting, stale, clock, session, pulse, hw>>

\* for baudrate in ...: the next value, or the end of the loop and of run.
\* The locals of the process_baudrate call that returned (count, loop, tmp,
\* resp) no longer exist, and the calls and the exception of a new candidate
\* are recorded anew.  Whatever the UART holds by now was received at the
\* clock of an earlier candidate.
ForNext ==
    /\ pc = "for"
    /\ IF idx < Len(candidates)
       THEN /\ idx' = idx + 1
            /\ baudrate' = candidates[idx + 1]
            /\ pc' = "change_baudrate"
            /\ count' = 0
            /\ loop' = 0
            /\ tmp' = NoByte
            /\ resp' = <<>>
            /\ polls' = 0
            /\ reads' = 0
            /\ tx' = 0
            /\ errAt' = <<>>
            /\ stale' = in_waiting
       ELSE /\ pc' = "done"
            /\ UNCHANGED <<idx, baudrate, probeVars, resp, errAt, stale>>
    /\ UNCHANGED <<cfgVars, owf_serial, uart_instance, reset_pin, candidates,
                   tested, ret, in_waiting, clock, session, lastlog, pulse, hw>>

(***************************************************************************)
(* change_baudrate, lines 135-146                                          *)
(***************************************************************************)
\* serial_instance.read(serial_instance.in_waiting): the raw transport is emptied
CbSerialRead ==
    /\ pc = "change_baudrate"
    /\ tested' = Append(tested, baudrate)
    /\ hw' = TRUE
    /\ \/ /\ pc' = "cb_configure"
          /\ lastlog' = "Switching to baudrate"
          /\ UNCHANGED <<ret, errAt>>
       \/ CbExcept("change_baudrate")
    /\ UNCHANGED <<cfgVars, owf_serial, uart_instance, reset_pin, candidates, idx,
                   baudrate, probeVars, resp, in_waiting, stale, clock, session, pulse>>

\* uart_instance.configure(baudrate=baudrate)
CbConfigure ==
    /\ pc = "cb_configure"
    /\ \/ /\ clock' = baudrate
          /\ pc' = "cb_receive"
          /\ UNCHANGED <<ret, lastlog, errAt>>
       \/ CbExcept("cb_configure") /\ UNCHANGED clock
    /\ UNCHANGED <<cfgVars, owf_serial, uart_instance, reset_pin, sweepVars,
                   probeVars, resp, in_waiting, stale, session, pulse, hw>>

CbReceiveKeepsBuffer ==
    /\ pc = "cb_receive"
    /\ \/ /\ ret' = TRUE
          /\ pc' = "reset_target"
          /\ UNCHANGED <<lastlog, errAt>>
       \/ CbExcept("cb_receive")
    /\ UNCHANGED <<cfgVars, owf_serial, uart_instance, reset_pin, sweepVars,
                   probeVars, resp, in_waiting, stale, clock, session, pulse, hw>>

\* uart_instance.receive(uart_instance.in_waiting()); return True
CbReceive ==
    /\ pc = "cb_receive"
    /\ \/ /\ in_waiting' = 0
          /\ stale' = 0
          /\ ret' = TRUE
          /\ pc' = "reset_target"
          /\ UNCHANGED <<lastlog, errAt>>
       \/ CbExcept("cb_receive") /\ UNCHANGED <<in_waiting, stale>>
    /\ UNCHANGED <<cfgVars, owf_serial, uart_instance, reset_pin, sweepVars,
                   probeVars, resp, clock, session, pulse, hw>>

(***************************************************************************)
(* reset_target, lines 235-245                                             *)
(***************************************************************************)
LevelWrite(level) == IF level = 0 THEN "status=0" ELSE "status=1"

ActiveLevelSwapped == IF Upper(advanced_options.reset_pol) = LOW THEN 1 ELSE 0

\* lines 238 and 242: the level that resets the target.
ActiveLevel == IF Upper(advanced_options.reset_pol) = LOW THEN 0 ELSE 1

\* lines 240 and 244: the level that releases it.
InactiveLevel == IF Upper(advanced_options.reset_pol) = LOW THEN 1 ELSE 0

ResetTargetOncePerRun ==
    /\ pc = "reset_target"
    /\ pulse' = <<>>
    /\ IF reset_pin.none \/ idx > 1
       THEN pc' = "process_baudrate" /\ UNCHANGED lastlog
       ELSE pc' = "rt_active" /\ lastlog' = "Attempting to reset the target.."
    /\ UNCHANGED <<cfgVars, owf_serial, uart_instance, reset_pin, sweepVars,
                   probeVars, resp, ret, in_waiting, stale, clock, session, hw, errAt>>

\* if self.reset_pin is not None: log, else return at once
ResetTarget ==
    /\ pc = "reset_target"
    /\ pulse' = <<>>
    /\ IF reset_pin.none
       THEN pc' = "process_baudrate" /\ UNCHANGED lastlog
       ELSE pc' = "rt_active" /\ lastlog' = "Attempting to reset the target.."
    /\ UNCHANGED <<cfgVars, owf_serial, uart_instance, reset_pin, sweepVars,
                   probeVars, resp, ret, in_waiting, stale, clock, session, hw, errAt>>

\* self.reset_pin.status = 0 (LOW) / 1 (otherwise)
RtActive ==
    /\ pc = "rt_active"
    /\ \/ /\ reset_pin' = [reset_pin EXCEPT !.status = ActiveLevel]
          /\ pulse' = Append(pulse, LevelWrite(ActiveLevel))
          /\ pc' = "rt_hold"
          /\ UNCHANGED <<lastlog, errAt>>
       \/ RunExcept("rt_active") /\ UNCHANGED <<reset_pin, pulse>>
    /\ UNCHANGED <<cfgVars, owf_serial, uart_instance, sweepVars, probeVars, resp,
                   ret, in_waiting, stale, clock, session, hw>>

\* time.sleep(reset_hold)
RtHold ==
    /\ pc = "rt_hold"
    /\ pulse' = Append(pulse, "sleep(reset_hold)")
    /\ pc' = "rt_inactive"
    /\ UNCHANGED <<cfgVars, owf_serial, uart_instance, reset_pin, sweepVars,
                   probeVars, resp, ret, in_waiting, stale, clock, session, lastlog, hw, errAt>>

\* self.reset_pin.status = 1 (LOW) / 0 (otherwise)
RtInactive ==
    /\ pc = "rt_inactive"
    /\ \/ /\ reset_pin' = [reset_pin EXCEPT !.status = InactiveLevel]
          /\ pulse' = Append(pulse, LevelWrite(InactiveLevel))
          /\ pc' = "rt_delay"
          /\ UNCHANGED <<lastlog, errAt>>
       \/ RunExcept("rt_inactive") /\ UNCHANGED <<reset_pin, pulse>>
    /\ UNCHANGED <<cfgVars, owf_serial, uart_instance, sweepVars, probeVars, resp,
                   ret, in_waiting, stale, clock, session, hw>>

\* time.sleep(reset_delay)
RtDelay ==
    /\ pc = "rt_delay"
    /\ pulse' = Append(pulse, "sleep(reset_delay)")
    /\ pc' = "process_baudrate"
    /\ UNCHANGED <<cfgVars, owf_serial, uart_instance, reset_pin, sweepVars,
                   probeVars, resp, ret, in_waiting, stale, clock, session, lastlog, hw, errAt>>

(***************************************************************************)
(* process_baudrate, lines 179-228                                         *)
(***************************************************************************)
\* count = 0; loop = 0; threshold = 20
PbStart ==
    /\ pc = "process_baudrate"
    /\ count' = 0
    /\ loop' = 0
    /\ tmp' = NoByte
    /\ polls' = 0
    /\ reads' = 0
    /\ tx' = 0
    /\ pc' = "wait_bytes"
    /\ UNCHANGED <<cfgVars, owf_serial, uart_instance, reset_pin, sweepVars, resp,
                   ret, in_waiting, stale, clock, session, lastlog, pulse, hw, errAt>>

MayTriggerOnceMore == options.trigger /\ loop <= MaxTriggers

MayTriggerUnasked == loop < MaxTriggers

\* "elif self.options['trigger']['Value'] and loop < 3"
MayTrigger == options.trigger /\ loop < MaxTriggers

ThresholdPassed(c) == c > threshold

\* "if count >= threshold"
ThresholdReached(c) == c >= threshold

WaitBytesForgetsAttempt ==
    /\ pc = "wait_bytes"
    /\ polls' = polls + 1
    /\ \/ /\ in_waiting > 0
          /\ pc' = "receive"
          /\ UNCHANGED <<ret, lastlog, errAt>>
       \/ /\ in_waiting = 0
          /\ MayTrigger
          /\ pc' = "trigger_device"
          /\ UNCHANGED <<ret, lastlog, errAt>>
       \/ /\ in_waiting = 0
          /\ ~MayTrigger
          /\ lastlog' = "No data received using the following baudrate value"
          /\ ret' = FALSE
          /\ pc' = "for"
          /\ UNCHANGED errAt
       \/ RunExcept("wait_bytes") /\ UNCHANGED ret
    /\ UNCHANGED <<cfgVars, owf_serial, uart_instance, reset_pin, sweepVars, count,
                   loop, tmp, reads, tx, resp, in_waiting, stale, clock, session, pulse,
                   hw>>

\* if self.wait_bytes(): ... elif trigger and loop < 3: ... else: return False
\* wait_bytes polls in_waiting() for one second: True if the UART holds a byte,
\* False if the window passes with none.
WaitBytes ==
    /\ pc = "wait_bytes"
    /\ polls' = polls + 1
    /\ \/ /\ in_waiting > 0
          /\ pc' = "receive"
          /\ UNCHANGED <<loop, ret, lastlog, errAt>>
       \/ /\ in_waiting = 0
          /\ MayTrigger
          /\ loop' = loop + 1
          /\ pc' = "trigger_device"
          /\ UNCHANGED <<ret, lastlog, errAt>>
       \/ /\ in_waiting = 0
          /\ ~MayTrigger
          /\ lastlog' = "No data received using the following baudrate value"
          /\ ret' = FALSE
          /\ pc' = "for"
          /\ UNCHANGED <<loop, errAt>>
       \/ RunExcept("wait_bytes") /\ UNCHANGED <<loop, ret>>
    /\ UNCHANGED <<cfgVars, owf_serial, uart_instance, reset_pin, sweepVars, count,
                   tmp, reads, tx, resp, in_waiting, stale, clock, session, pulse, hw>>

\* trigger_device, lines 154-156: log, transmit(trigger_char), sleep(0.2)
TriggerDevice ==
    /\ pc = "trigger_device"
    /\ tx' = tx + 1
    /\ \/ /\ lastlog' = "Triggering the device"
          /\ pc' = "wait_bytes"
          /\ UNCHANGED errAt
       \/ RunExcept("trigger_device")
    /\ UNCHANGED <<cfgVars, owf_serial, uart_instance, reset_pin, sweepVars, count,
                   loop, tmp, polls, reads, resp, ret, in_waiting, stale, clock, session, pulse,
                   hw>>

\* tmp = self.uart_instance.receive(1): the oldest byte the UART holds, whose
\* value is whatever the target sent, one of sent.
ReceiveFrom(sent) ==
    /\ pc = "receive"
    /\ reads' = reads + 1
    /\ \/ /\ \E b \in sent : tmp' = Bytes1(b)
          /\ in_waiting' = in_waiting - 1
          /\ stale' = IF stale > 0 THEN stale - 1 ELSE 0
          /\ pc' = "classify"
          /\ UNCHANGED <<lastlog, errAt>>
       \/ RunExcept("receive") /\ UNCHANGED <<tmp, in_waiting, stale>>
    /\ UNCHANGED <<cfgVars, owf_serial, uart_instance, reset_pin, sweepVars, count,
                   loop, polls, tx, resp, ret, clock, session, pulse, hw>>

Receive == ReceiveFrom(StreamBytes)

ClassifyForgetsAttempts ==
    /\ pc = "classify"
    /\ tmp' = NoByte
    /\ IF IsValidChar(tmp)
       THEN /\ count' = count + 1
            /\ loop' = 0
            /\ IF ThresholdReached(count + 1)
               THEN pc' = "prompt" /\ lastlog' = "Valid baudrate found"
               ELSE pc' = "wait_bytes" /\ UNCHANGED lastlog
            /\ UNCHANGED ret
       ELSE /\ lastlog' = "does not appear to be a valid baudrate setting"
            /\ ret' = FALSE
            /\ pc' = "for"
            /\ UNCHANGED <<count, loop>>
    /\ UNCHANGED <<cfgVars, owf_serial, uart_instance, reset_pin, sweepVars,
                   polls, reads, tx, resp, in_waiting, stale, clock, session, pulse, hw, errAt>>

\* lines 196-211: decode, test against the table, count or return False, and
\* report the baudrate valid once count reaches the threshold.
Classify ==
    /\ pc = "classify"
    /\ tmp' = NoByte
    /\ IF IsValidChar(tmp)
       THEN /\ count' = count + 1
            /\ IF ThresholdReached(count + 1)
               THEN pc' = "prompt" /\ lastlog' = "Valid baudrate found"
               ELSE pc' = "wait_bytes" /\ UNCHANGED lastlog
            /\ UNCHANGED ret
       ELSE /\ lastlog' = "does not appear to be a valid baudrate setting"
            /\ ret' = FALSE
            /\ pc' = "for"
            /\ UNCHANGED count
    /\ UNCHANGED <<cfgVars, owf_serial, uart_instance, reset_pin, sweepVars, loop,
                   polls, reads, tx, resp, in_waiting, stale, clock, session, pulse, hw, errAt>>

(***************************************************************************)
(* The handoff, lines 212-219, and uart_pt_miniterm, lines 164-171         *)
(***************************************************************************)
\* "if resp.upper() == 'Y'"
WantsMiniterm(r) == Upper(r) = KEY_Y

WantsContinueCased(r) == r = KEY_C

WantsContinueOrMiniterm(r) == Upper(r) \in {KEY_C, KEY_Y}

\* "if resp.upper() == 'C'"
WantsContinue(r) == Upper(r) = KEY_C

\* resp = prompt(...); if resp.upper() == 'Y': self.uart_pt_miniterm()
Prompt ==
    /\ pc = "prompt"
    /\ \E r \in Responses :
         /\ resp' = r
         /\ pc' = IF WantsMiniterm(r) THEN "passthrough" ELSE "continue_check"
    /\ UNCHANGED <<cfgVars, owf_serial, uart_instance, reset_pin, sweepVars,
                   probeVars, ret, in_waiting, stale, clock, session, lastlog, pulse, hw, errAt>>

\* self.uart_instance.passthrough()
PtPassthrough ==
    /\ pc = "passthrough"
    /\ \/ /\ session' = "passthrough"
          /\ pc' = "close"
          /\ UNCHANGED <<lastlog, errAt>>
       \/ RunExcept("passthrough") /\ UNCHANGED session
    /\ UNCHANGED <<cfgVars, owf_serial, uart_instance, reset_pin, sweepVars,
                   probeVars, resp, ret, in_waiting, stale, clock, pulse, hw>>

PtCloseLeftOpen ==
    /\ pc = "close"
    /\ pc' = "miniterm"
    /\ UNCHANGED <<cfgVars, owf_serial, uart_instance, reset_pin, sweepVars, probeVars,
                   resp, ret, in_waiting, stale, clock, session, lastlog, pulse, hw, errAt>>

\* self.owf_serial.close()
PtClose ==
    /\ pc = "close"
    /\ owf_serial' = "closed"
    /\ pc' = "miniterm"
    /\ UNCHANGED <<cfgVars, uart_instance, reset_pin, sweepVars, probeVars, resp,
                   ret, in_waiting, stale, clock, session, lastlog, pulse, hw, errAt>>

\* detect_octowire if configured, miniterm(None, self.config), the closing log
PtMiniterm ==
    /\ pc = "miniterm"
    /\ \/ /\ session' = "miniterm"
          /\ lastlog' = "Please press the Octowire User button to exit"
          /\ pc' = "continue_check"
          /\ UNCHANGED errAt
       \/ RunExcept("miniterm") /\ UNCHANGED session
    /\ UNCHANGED <<cfgVars, owf_serial, uart_instance, reset_pin, sweepVars,
                   probeVars, resp, ret, in_waiting, stale, clock, pulse, hw>>

\* if resp.upper() == 'C': return False; return True -- and the caller's break
ContinueCheck ==
    /\ pc = "continue_check"
    /\ ret' = ~WantsContinue(resp)
    /\ pc' = IF WantsContinue(resp) THEN "for" ELSE "done"
    /\ UNCHANGED <<cfgVars, owf_serial, uart_instance, reset_pin, sweepVars,
                   probeVars, resp, in_waiting, stale, clock, session, lastlog, pulse, hw, errAt>>

(***************************************************************************)
(* The target                                                              *)
(***************************************************************************)
\* The statements of one candidate: change_baudrate, reset_target, the probe.
CandidatePcs == {"change_baudrate", "cb_configure", "cb_receive", "reset_target",
                 "rt_active", "rt_hold", "rt_inactive", "rt_delay",
                 "process_baudrate", "wait_bytes", "trigger_device", "receive",
                 "classify"}

\* The target puts a byte on the line while a candidate is tried; until
\* configure() has returned it is received at the clock of the candidate before.
TargetSends ==
    /\ pc \in CandidatePcs
    /\ in_waiting < MaxBuf
    /\ in_waiting' = in_waiting + 1
    /\ stale' = IF pc \in {"change_baudrate", "cb_configure"} THEN stale + 1 ELSE stale
    /\ UNCHANGED <<cfgVars, pc, owf_serial, uart_instance, reset_pin, sweepVars,
                   probeVars, resp, ret, clock, session, lastlog, pulse, hw, errAt>>

\* Every statement but receive(1).
Others ==
    \/ Connect \/ CheckOptions \/ InitUart \/ InitDirection \/ InitStatus
    \/ StartSweep \/ ForNext
    \/ CbSerialRead \/ CbConfigure \/ CbReceive
    \/ ResetTarget \/ RtActive \/ RtHold \/ RtInactive \/ RtDelay
    \/ PbStart \/ WaitBytes \/ TriggerDevice \/ Classify
    \/ Prompt \/ PtPassthrough \/ PtClose \/ PtMiniterm \/ ContinueCheck
    \/ TargetSends

Next == Others \/ Receive

\* Every option set of Init, the target sending the bytes of StreamBytes.
Spec == Init /\ [][Next]_vars

(***************************************************************************)
(* Progress.  run is one thread and every statement of it returns or       *)
(* raises: wait_bytes gives up after its one-second window, the sleeps are *)
(* finite, the adapter answers or raises.  Two calls return only when the  *)
(* operator acts, prompt() and miniterm(), and nothing is assumed of them; *)
(* nothing is assumed of the target either.                                *)
(***************************************************************************)
Statement ==
    \/ Connect \/ CheckOptions \/ InitUart \/ InitDirection \/ InitStatus
    \/ StartSweep \/ ForNext
    \/ CbSerialRead \/ CbConfigure \/ CbReceive
    \/ ResetTarget \/ RtActive \/ RtHold \/ RtInactive \/ RtDelay
    \/ PbStart \/ WaitBytes \/ TriggerDevice \/ Receive \/ Classify
    \/ PtPassthrough \/ PtClose \/ ContinueCheck

FairSpec == Spec /\ WF_vars(Statement)

(***************************************************************************)
(* One option set, the target sending any byte value.                      *)
(***************************************************************************)
AllBytes == 0..255

ReceiveAny == ReceiveFrom(AllBytes)

InitAlphabet ==
    /\ Init
    /\ options = [mode |-> <<"i","n","c","r","e","m","e","n","t","a","l">>,
                  reset_pin |-> <<GpioPins - 1>>, trigger |-> TRUE]
    /\ advanced_options = [reset_pol |-> <<"l","o","w">>,
                           baudrate_min |-> 1, baudrate_max |-> 3,
                           baudrate_inc |-> 1, baudrate_list |-> <<"3",",","1">>]

NextAlphabet == Others \/ ReceiveAny

SpecAlphabet == InitAlphabet /\ [][NextAlphabet]_vars

(***************************************************************************)
(* The sweep over longer candidate sequences: a reset line and the trigger *)
(* set, every (min, max, step) of incremental mode up to MaxSweep and a    *)
(* set of lists for list mode.                                             *)
(***************************************************************************)
\* Largest baudrate_min / baudrate_max of the sweep.
MaxSweep == 5

\* advanced_options["baudrate_inc"] of the sweep
SweepIncrements == (0 - 2)..3

\* advanced_options["baudrate_list"] of the sweep:
\* "3,1"  "2, 2"  "1,2,1"  "5,5,5"  "4,3,2,1"  " 7 ,+7,-1"
SweepLists == { <<"3",",","1">>, <<"2",","," ","2">>, <<"1",",","2",",","1">>,
                <<"5",",","5",",","5">>, <<"4",",","3",",","2",",","1">>,
                <<" ","7"," ",",","+","7",",","-","1">> }

SweepModes == { <<"i","n","c","r","e","m","e","n","t","a","l">>, <<"L","i","s","t">> }

InitSweep ==
    /\ options \in [mode : SweepModes, reset_pin : {<<GpioPins - 1>>}, trigger : {TRUE}]
    /\ advanced_options \in
         { a \in [reset_pol : {<<"l","o","w">>},
                  baudrate_min : 1..MaxSweep, baudrate_max : 1..MaxSweep,
                  baudrate_inc : SweepIncrements, baudrate_list : SweepLists] :
             /\ Upper(options.mode) # INCREMENTAL =>
                   (a.baudrate_min = 1 /\ a.baudrate_max = MaxSweep /\ a.baudrate_inc = 1)
             /\ Upper(options.mode) # LIST => a.baudrate_list = <<"3",",","1">> }
    /\ Constructed

SpecSweep == InitSweep /\ [][Next]_vars

(***************************************************************************)
(* The outcomes of one candidate's probe, read off what the code logs and  *)
(* where it goes.                                                          *)
(***************************************************************************)
HandoffPcs == {"prompt", "passthrough", "close", "miniterm", "continue_check"}

\* "Valid baudrate found" was logged for the candidate the loop is at.
Accepted ==
    \/ pc \in HandoffPcs
    \/ /\ pc \in {"for", "done"}
       /\ lastlog \in {"Valid baudrate found",
                       "Please press the Octowire User button to exit"}
    \/ /\ pc = "done"
       /\ errAt # <<>>
       /\ errAt[1] \in {"passthrough", "miniterm"}

\* The probe of the candidate the loop is at returned on an invalid character.
Rejected ==
    /\ pc \in {"for", "done"}
    /\ lastlog = "does not appear to be a valid baudrate setting"

\* The probe of the candidate the loop is at returned for want of data.
TimedOut ==
    /\ pc \in {"for", "done"}
    /\ lastlog = "No data received using the following baudrate value"

\* The Acceptance Alphabet: 0x20-0x7E, CR, LF, TAB, ESC.
AcceptanceAlphabet == {n \in 0..255 : (n >= 32 /\ n <= 126) \/ n \in {13, 10, 9, 27}}

(***************************************************************************)
(* C1: a probe is Accepted exactly when 20 bytes were read for it and all  *)
(* 20 were counted as members; while it still polls, triggers or reads,    *)
(* fewer than 20 are counted and every byte read so far was a member; no   *)
(* candidate ever has a 21st receive(1) call.                              *)
(***************************************************************************)
C1_AcceptedAfterExactly20Reads ==
    /\ Accepted <=> count = 20
    /\ Accepted => reads = 20
    /\ reads <= 20
    /\ pc \in {"wait_bytes", "trigger_device", "receive"} =>
         (reads = count /\ count < 20)
    /\ pc = "classify" => (reads = count + 1 /\ count < 20)

C1_Witness == pc = "prompt" /\ reads = 20 /\ count = 20

(***************************************************************************)
(* C2: a non-member byte ends the probe at once with Rejected (False is    *)
(* returned to the loop) whatever came before, a member byte never does;   *)
(* at Rejected the k                                                       *)
(* bytes read are k-1 counted members and the rejected one, k <= 20, and   *)
(* every poll and every trigger emission of the candidate came before the  *)
(* last read: one poll per read and per trigger attempt, no more.          *)
(***************************************************************************)
C2_RejectedAtFirstNonMember ==
    [][ /\ (pc = "classify" /\ pc' # pc /\ tmp.v \notin AcceptanceAlphabet) =>
              (Rejected' /\ ret' = FALSE /\ pc' = "for"
               /\ reads' = reads /\ polls' = polls /\ tx' = tx)
        /\ (pc = "classify" /\ tmp.v \in AcceptanceAlphabet) => ~Rejected'
        /\ Rejected' => /\ reads' = count' + 1
                        /\ reads' \in 1..20
                        /\ polls' = reads' + loop'
                        /\ tx' = loop' ]_vars

C2_Witness == Rejected /\ reads = 5 /\ count = 4 /\ pc = "for"

(***************************************************************************)
(* C3: with the trigger option on and no byte ever available (no read was  *)
(* made), every trigger emission follows one more empty polling window,    *)
(* and Timeout comes with exactly 3 emissions and 4 polling windows.       *)
(***************************************************************************)
C3_ThreeTriggersThenTimeout ==
    (options.trigger /\ reads = 0) =>
        /\ TimedOut => (tx = 3 /\ polls = 4 /\ ret = FALSE)
        /\ pc = "trigger_device" => (polls = tx + 1 /\ tx < 3)
        /\ pc = "wait_bytes" => (polls = tx /\ tx <= 3)

C3_Witness == options.trigger /\ reads = 0 /\ TimedOut /\ tx = 3 /\ polls = 4

(***************************************************************************)
(* C4: with the trigger option off nothing is ever transmitted, and when   *)
(* no byte is ever available (no read was made) the first empty polling    *)
(* window is the last: Timeout comes with exactly one wait_bytes call, as  *)
(* it always comes with one call more than bytes were read.                *)
(***************************************************************************)
C4_OneWindowThenTimeout ==
    ~options.trigger =>
        /\ tx = 0
        /\ pc # "trigger_device"
        /\ (TimedOut /\ reads = 0) => (polls = 1 /\ ret = FALSE)
        /\ TimedOut => polls = reads + 1
        /\ (pc = "wait_bytes" /\ reads = 0) => polls = 0

C4_Witness == ~options.trigger /\ TimedOut /\ reads = 0 /\ polls = 1 /\ tx = 0

(***************************************************************************)
(* C5: the step that classifies a received byte counts it (and does not    *)
(* reject) if and only if its value is in 0x20..0x7E or is one of 0x0D,    *)
(* 0x0A, 0x09, 0x1B, and rejects it if and only if it is not; every value  *)
(* of 0..255 is received (SpecAlphabet).                                   *)
(***************************************************************************)
C5_MembershipTest ==
    [][ (pc = "classify" /\ pc' # pc) =>
          /\ (count' = count + 1 /\ ~Rejected') <=> tmp.v \in AcceptanceAlphabet
          /\ (count' = count /\ Rejected') <=> tmp.v \notin AcceptanceAlphabet ]_vars

C5_Witness == pc = "classify" /\ tmp.v = 27 /\ count = 2 /\ reads = 3

(***************************************************************************)
(* What the operator answered, compared without regard to case.            *)
(***************************************************************************)
AnswerIsYes(r) == r \in {<<"y">>, <<"Y">>}

AnswerIsContinue(r) == r \in {<<"c">>, <<"C">>}

(***************************************************************************)
(* C6: when process_baudrate returns True the loop is left and run ends,   *)
(* and nothing happens after the end; when the operator answered           *)
(* 'continue' it returns False with the loop where it was, and the loop    *)
(* then takes the value right after the accepted one; at every moment the  *)
(* candidates reconfigured so far are the first ones of the sequence, in   *)
(* order, each once.                                                       *)
(***************************************************************************)
C6_StopOnAcceptResumeOnContinue ==
    [][ /\ (pc = "continue_check" /\ ~AnswerIsContinue(resp)) =>
              (ret' = TRUE /\ pc' = "done")
        /\ (pc = "continue_check" /\ AnswerIsContinue(resp)) =>
              (ret' = FALSE /\ pc' = "for" /\ idx' = idx /\ tested' = tested)
        /\ (pc = "for" /\ idx < Len(candidates)) =>
              (pc' = "change_baudrate" /\ idx' = idx + 1
               /\ baudrate' = candidates[idx + 1])
        /\ (pc = "for" /\ idx >= Len(candidates)) => pc' = "done"
        /\ pc # "done"
        /\ tested' = SubSeq(candidates', 1,
                            IF pc' = "change_baudrate" THEN idx' - 1 ELSE idx') ]_vars

C6_Witness ==
    /\ pc = "change_baudrate"
    /\ idx = 2
    /\ lastlog = "Valid baudrate found"
    /\ tested = <<candidates[1]>>

(***************************************************************************)
(* C7: when the handoff of an accepted candidate is over (and the adapter  *)
(* did not fail in it), exactly one of the three outcomes holds: the       *)
(* miniterm session was opened; the sweep stopped with True and no         *)
(* session; the acceptance was discarded with False and the loop went on.  *)
(* The first is the outcome of 'y'/'Y', the third of 'c'/'C', the second   *)
(* of every other answer.                                                  *)
(***************************************************************************)
HandoffOver == Accepted /\ pc \in {"for", "done"} /\ errAt = <<>>

SessionOpened == session = "miniterm"

StoppedWithoutSession == pc = "done" /\ ret = TRUE /\ session = "none"

SweepResumed == ret = FALSE /\ (pc = "for" \/ idx = Len(candidates))

ChangeBaudratePcs == {"change_baudrate", "cb_configure", "cb_receive"}

ResetAndProbePcs == {"rt_active", "rt_inactive", "wait_bytes", "trigger_device",
                     "receive"}

\* An exception was raised by this step.
Raised == errAt' # errAt /\ errAt' # <<>>

(***************************************************************************)
(* C8, as claimed: after an exception of the adapter on a candidate, in    *)
(* change_baudrate or in its reset pulse or probe, the error is reported   *)
(* and the loop is at its head, or has ended because that candidate was    *)
(* the last.                                                               *)
(***************************************************************************)
C8_EveryTransportErrorSkipsCandidate ==
    (errAt # <<>> /\ errAt[1] \in ChangeBaudratePcs \cup ResetAndProbePcs) =>
        /\ lastlog \in {"change_baudrate: err", "run: err"}
        /\ pc = "for" \/ (pc = "done" /\ idx = Len(candidates))

(***************************************************************************)
(* C8, amended: an exception raised in change_baudrate is logged there,    *)
(* False is returned and the loop is at its head, from where it takes the  *)
(* next candidate if there is one; an exception raised in the reset pulse  *)
(* or the probe is logged by run and ends the run, whatever candidates     *)
(* are left.                                                               *)
(***************************************************************************)
C8_OnlyChangeBaudrateErrorsSkip ==
    [][ /\ (Raised /\ errAt'[1] \in ChangeBaudratePcs) =>
              /\ errAt' = <<pc, idx>>
              /\ lastlog' = "change_baudrate: err"
              /\ ret' = FALSE
              /\ pc' = "for"
              /\ idx' = idx
        /\ (Raised /\ errAt'[1] \in ResetAndProbePcs) =>
              /\ errAt' = <<pc, idx>>
              /\ lastlog' = "run: err"
              /\ pc' = "done"
        /\ (pc \in ChangeBaudratePcs /\ pc' \in {"for", "done"}) => Raised
        /\ (pc = "for" /\ errAt # <<>> /\ idx < Len(candidates)) =>
              (pc' = "change_baudrate" /\ baudrate' = candidates[idx + 1]) ]_vars

C8_Witness ==
    /\ pc = "change_baudrate"
    /\ idx = 2
    /\ lastlog = "change_baudrate: err"
    /\ tested = <<candidates[1]>>

(***************************************************************************)
(* C9, as claimed: in a run whose options are invalid (bad mode; with a    *)
(* reset pin set, a pin outside 0..14 or a polarity that is neither low    *)
(* nor high; in list mode, a list of which some item is no integer)        *)
(* neither the UART nor a GPIO is ever used.                               *)
(***************************************************************************)
InvalidOptions ==
    \/ Upper(options.mode) \notin {INCREMENTAL, LIST}
    \/ /\ options.reset_pin # <<>>
       /\ \/ options.reset_pin[1] \notin 0..14
          \/ Upper(advanced_options.reset_pol) \notin {LOW, HIGH}
    \/ /\ Upper(options.mode) = LIST
       /\ \E i \in 1..Len(Split(advanced_options.baudrate_list)) :
            ~IntParses(Split(advanced_options.baudrate_list)[i])

C9_InvalidOptionsTouchNoHardware ==
    InvalidOptions =>
        /\ ~hw
        /\ reset_pin.direction = "IN"
        /\ reset_pin.status = Unwritten
        /\ pc = "done" /\ owf_serial = "open" => lastlog # ""

(***************************************************************************)
(* C10: with a reset line configured, the level writes and sleeps of a     *)
(* reset_target call are, in this order and with nothing else: the active  *)
(* level (0 for low, 1 for high), sleep(reset_hold), the inactive level (1 *)
(* for low, 0 for high), sleep(reset_delay); the line is at the level last *)
(* written.  With no reset line configured the call writes no level and    *)
(* sleeps not at all.                                                      *)
(***************************************************************************)
ExpectedPulse ==
    IF Upper(advanced_options.reset_pol) = LOW
    THEN <<"status=0", "sleep(reset_hold)", "status=1", "sleep(reset_delay)">>
    ELSE <<"status=1", "sleep(reset_hold)", "status=0", "sleep(reset_delay)">>

\* How far the reset_target call has come, by the statement the run is at.
PulseSteps ==
    CASE pc = "rt_active" -> 0
      [] pc = "rt_hold" -> 1
      [] pc = "rt_inactive" -> 2
      [] pc = "rt_delay" -> 3
      [] OTHER -> 4

AfterResetTargetEntry ==
    pc \in {"rt_active", "rt_hold", "rt_inactive", "rt_delay", "process_baudrate",
            "wait_bytes", "trigger_device", "receive", "classify"}

C10_ResetPulseSequence ==
    AfterResetTargetEntry =>
        IF options.reset_pin # <<>>
        THEN /\ pulse = SubSeq(ExpectedPulse, 1, PulseSteps)
             /\ pc \in {"rt_hold", "rt_inactive"} =>
                  reset_pin.status = (IF Upper(advanced_options.reset_pol) = LOW
                                      THEN 0 ELSE 1)
             /\ pc \notin {"rt_active", "rt_hold", "rt_inactive"} =>
                  reset_pin.status = (IF Upper(advanced_options.reset_pol) = LOW
                                      THEN 1 ELSE 0)
        ELSE /\ pulse = <<>>
             /\ reset_pin = None
             /\ pc \notin {"rt_active", "rt_hold", "rt_inactive", "rt_delay"}

C10_Witness ==
    /\ pc = "process_baudrate"
    /\ Upper(advanced_options.reset_pol) = HIGH
    /\ pulse = <<"status=1", "sleep(reset_hold)", "status=0", "sleep(reset_delay)">>
    /\ reset_pin.status = 0

(***************************************************************************)
(* C11: with a reset line configured, in both modes, the probe of a        *)
(* candidate is entered only from the end of a complete reset pulse, that  *)
(* pulse is entered only from reset_target, and reset_target only from the *)
(* end of change_baudrate of the same candidate with the clock already at  *)
(* its rate; levels are written and sleeps made nowhere else, so between   *)
(* the reconfiguration and the first polling window of a candidate there   *)
(* is exactly one pulse, and no window, read or emission precedes it.      *)
(***************************************************************************)
ResetTargetPcs == {"reset_target", "rt_active", "rt_hold", "rt_inactive", "rt_delay"}

ProbePcs == {"wait_bytes", "trigger_device", "receive", "classify"}

C11_ResetPulseBeforeEveryProbe ==
    [][ (options.reset_pin # <<>> /\ pc' # pc) =>
          /\ pc' = "process_baudrate" =>
               /\ pc = "rt_delay"
               /\ pulse' = ExpectedPulse
               /\ clock' = candidates[idx] /\ baudrate' = candidates[idx]
               /\ tested'[Len(tested')] = candidates[idx] /\ Len(tested') = idx
               /\ polls' = 0 /\ reads' = 0 /\ tx' = 0
          /\ pc' = "rt_active" => (pc = "reset_target" /\ pulse' = <<>>)
          /\ pc' = "reset_target" => (pc = "cb_receive" /\ clock = baudrate)
          /\ pc' = "cb_receive" => (pc = "cb_configure" /\ clock' = candidates[idx])
          /\ pc' = "wait_bytes" => pc \in ProbePcs \cup {"process_baudrate"}
          /\ pc = "process_baudrate" => pc' = "wait_bytes"
          /\ pc' \in ProbePcs => pulse' = ExpectedPulse
          /\ pulse' # pulse => pc \in ResetTargetPcs
          /\ reset_pin' # reset_pin =>
               pc \in {"init", "init_direction", "init_status", "rt_active",
                       "rt_inactive"} ]_vars

C11_Witness ==
    /\ pc = "wait_bytes"
    /\ polls = 0
    /\ idx = 2
    /\ Upper(options.mode) = LIST
    /\ options.reset_pin # <<>>
    /\ pulse = ExpectedPulse
    /\ clock = candidates[2]

(***************************************************************************)
(* The sweep of a run.                                                     *)
(***************************************************************************)
\* The iterable of the for loop was evaluated and the loop entered.
LoopEntered ==
    \/ pc \in CandidatePcs \cup HandoffPcs \cup {"for"}
    \/ pc = "done" /\ idx > 0

\* The candidates the clock was asked to be reconfigured to are the first
\* ones of seq, in its order, one call for each position the loop has taken.
VisitedInOrder(seq) ==
    /\ idx <= Len(seq)
    /\ Len(tested) = (IF pc = "change_baudrate" THEN idx - 1 ELSE idx)
    /\ \A i \in 1..Len(tested) : tested[i] = seq[i]

ListedIntegers ==
    CASE advanced_options.baudrate_list = <<"3",",","1">> -> <<3, 1>>
      [] advanced_options.baudrate_list = <<"2",","," ","2">> -> <<2, 2>>
      [] advanced_options.baudrate_list = <<"1",",","2",",","1">> -> <<1, 2, 1>>
      [] advanced_options.baudrate_list = <<"5",",","5",",","5">> -> <<5, 5, 5>>
      [] advanced_options.baudrate_list = <<"4",",","3",",","2",",","1">> -> <<4, 3, 2, 1>>
      [] advanced_options.baudrate_list = <<" ","7"," ",",","+","7",",","-","1">>
           -> <<7, 7, 0 - 1>>
      [] OTHER -> <<>>

\* The clock of the candidate the loop is at was configured.
ClockConfigured ==
    pc \in (CandidatePcs \ {"change_baudrate", "cb_configure"}) \cup HandoffPcs

C13_ListOrderKept ==
    (Upper(options.mode) = LIST /\ ListedIntegers # <<>> /\ LoopEntered) =>
        /\ candidates = ListedIntegers
        /\ VisitedInOrder(ListedIntegers)
        /\ pc \in CandidatePcs \cup HandoffPcs => baudrate = ListedIntegers[idx]
        /\ ClockConfigured => clock = ListedIntegers[idx]

C13_Witness ==
    /\ Upper(options.mode) = LIST
    /\ advanced_options.baudrate_list = <<"1",",","2",",","1">>
    /\ pc = "wait_bytes"
    /\ idx = 3
    /\ tested = <<1, 2, 1>>
    /\ clock = 1

(***************************************************************************)
(* C14: when the operator chose the terminal session, miniterm is started  *)
(* only from the statement after owf_serial.close(), with the transport    *)
(* closed, and passthrough mode was entered before the close; from the     *)
(* close on the transport stays closed and nothing of the adapter changes  *)
(* or is called: no clock reconfiguration, no change_baudrate call, no     *)
(* poll, read or transmit, no level write or pulse; all that is left is    *)
(* miniterm, the return of True, and the end of run.                       *)
(***************************************************************************)
C14_TransportReleasedBeforeMiniterm ==
    [][ /\ (pc' = "miniterm" /\ pc' # pc) =>
              (pc = "close" /\ owf_serial' = "closed" /\ session' = "passthrough"
               /\ AnswerIsYes(resp))
        /\ (session' = "miniterm" /\ session # "miniterm") =>
              (pc = "miniterm" /\ owf_serial = "closed")
        /\ (owf_serial' = "closed" /\ owf_serial # "closed") => pc = "close"
        /\ owf_serial = "closed" =>
              /\ owf_serial' = "closed"
              /\ pc \in {"miniterm", "continue_check"}
              /\ pc' \in {"continue_check", "done"}
              /\ clock' = clock /\ tested' = tested /\ idx' = idx
              /\ polls' = polls /\ reads' = reads /\ tx' = tx
              /\ in_waiting' = in_waiting
              /\ reset_pin' = reset_pin /\ pulse' = pulse
              /\ uart_instance' = uart_instance ]_vars

C14_Witness ==
    /\ pc = "done"
    /\ session = "miniterm"
    /\ owf_serial = "closed"
    /\ resp = <<"Y">>
    /\ ret = TRUE
    /\ idx < Len(candidates)

(***************************************************************************)
(* C15, as claimed: in incremental mode with step <= 0 or min >= max, no   *)
(* candidate is ever taken by the loop (no change_baudrate call, no reset  *)
(* pulse, no probe), and a run that connected ends with an error logged.   *)
(***************************************************************************)
\* The last message logged is one of the errors check_options or run report.
ErrorLogged ==
    lastlog \in {"run: err", "Invalid reset polarity.", "Invalid reset pin.",
                 "Invalid mode option. Please use 'incremental' or 'list'.",
                 "Empty or invalid baudrate list."}

C15_BadIncrementalRangeReported ==
    (/\ Upper(options.mode) = INCREMENTAL
     /\ \/ advanced_options.baudrate_inc <= 0
        \/ advanced_options.baudrate_min >= advanced_options.baudrate_max) =>
        /\ tested = <<>>
        /\ idx = 0
        /\ pc \notin CandidatePcs \cup HandoffPcs
        /\ (pc = "done" /\ owf_serial # "none") => ErrorLogged

(***************************************************************************)
(* C16: the trigger sequence is transmitted at most 3 times for one        *)
(* candidate, whatever bytes and empty windows alternate: each transmit    *)
(* follows an empty window met with fewer than 3 attempts made, the        *)
(* attempts made are kept when a byte is read and classified, and they     *)
(* are back to 0 only when process_baudrate starts for a candidate; with   *)
(* the trigger option off nothing is transmitted.                          *)
(***************************************************************************)
C16_TriggerBudgetPerCandidate ==
    [][ /\ tx' <= 3 /\ loop' <= 3
        /\ ~options.trigger => (tx' = 0 /\ loop' = 0)
        /\ tx' = (IF pc' = "trigger_device" THEN loop' - 1 ELSE loop')
        /\ pc \in {"receive", "classify"} => (loop' = loop /\ tx' = tx)
        /\ (pc = "process_baudrate" /\ pc' # pc) => (loop' = 0 /\ tx' = 0)
        /\ tx' # tx =>
              \/ tx' = tx + 1 /\ pc = "trigger_device"
              \/ tx' = 0 /\ pc \in {"for", "process_baudrate"}
        /\ (pc' = "trigger_device" /\ pc' # pc) =>
              (pc = "wait_bytes" /\ in_waiting = 0 /\ loop < 3 /\ loop' = loop + 1)
        /\ (pc = "wait_bytes" /\ pc' = "for") =>
              (in_waiting = 0 /\ (options.trigger => loop = 3)) ]_vars

C16_Witness ==
    /\ options.trigger
    /\ idx = 2
    /\ pc = "wait_bytes"
    /\ tx = 3
    /\ reads = 2
    /\ polls = 5
    /\ tested[1] = candidates[1]
    /\ lastlog = "Triggering the device"

(***************************************************************************)
(* C17: change_baudrate empties the raw transport first, with the clock    *)
(* still where it was, then configures the clock to the candidate's rate   *)
(* (the only statement that changes the clock), then empties the UART's    *)
(* receive buffer; reset_target is entered only from there, with the       *)
(* buffer empty.  From the reset pulse to the handoff the UART holds no    *)
(* byte that arrived before the candidate's clock was configured, so the   *)
(* byte receive(1) returns to be classified is never one.                  *)
(***************************************************************************)
C17_FlushConfigureFlush ==
    [][ /\ (pc = "change_baudrate" /\ pc' # pc) =>
              (pc' \in {"cb_configure", "for"} /\ clock' = clock
               /\ in_waiting' = in_waiting)
        /\ (pc = "cb_configure" /\ pc' # pc) =>
              \/ pc' = "cb_receive" /\ clock' = baudrate /\ in_waiting' = in_waiting
              \/ pc' = "for" /\ clock' = clock /\ ret' = FALSE
        /\ (pc = "cb_receive" /\ pc' # pc) =>
              \/ /\ pc' = "reset_target"
                 /\ in_waiting' = 0
                 /\ clock = baudrate /\ clock' = clock
                 /\ ret' = TRUE
              \/ pc' = "for" /\ ret' = FALSE
        /\ (pc' = "reset_target" /\ pc' # pc) => pc = "cb_receive"
        /\ clock' # clock => pc = "cb_configure"
        /\ pc' \in ChangeBaudratePcs => (reads' = 0 /\ polls' = 0 /\ tx' = 0)
        /\ pc' \in ResetTargetPcs \cup ProbePcs \cup HandoffPcs \cup {"process_baudrate"} =>
              (stale' = 0 /\ clock' = baudrate')
        /\ (pc = "receive" /\ pc' = "classify") => stale = 0 ]_vars

C17_Witness ==
    /\ pc = "cb_receive"
    /\ idx = 2
    /\ clock = candidates[2]
    /\ clock # candidates[1]
    /\ in_waiting = 1
    /\ stale = 1
    /\ lastlog = "Switching to baudrate"

(***************************************************************************)
(* C18: whatever the target sends and whatever the trigger option, a       *)
(* probe makes at most 20 reads and meets at most 4 empty polling windows; *)
(* each of its statements returns to the loop, hands over to the operator, *)
(* raises, or goes on with count or loop one higher and neither ever       *)
(* lower; so every probe that runs is left, and every run ends or stays    *)
(* with the operator at the prompt or in the terminal session.             *)
(***************************************************************************)
\* The polling windows of this probe that passed with no byte.
EmptyWindows == polls - reads - (IF pc = "receive" THEN 1 ELSE 0)

WaitsForOperator == pc \in {"prompt", "miniterm"}

\* What one statement of the probe, or the loop head, leads to.
ProbeStatementAdvances ==
    /\ (pc = "wait_bytes" /\ pc' # pc) =>
          \/ pc' = "receive" /\ count' = count /\ loop' = loop
          \/ pc' = "trigger_device" /\ count' = count /\ loop' = loop + 1
          \/ pc' \in {"for", "done"}
    /\ (pc = "trigger_device" /\ pc' # pc) =>
          \/ pc' = "wait_bytes" /\ count' = count /\ loop' = loop
          \/ pc' = "done"
    /\ (pc = "receive" /\ pc' # pc) =>
          \/ pc' = "classify" /\ count' = count /\ loop' = loop
          \/ pc' = "done"
    /\ (pc = "classify" /\ pc' # pc) =>
          \/ pc' = "wait_bytes" /\ count' = count + 1 /\ loop' = loop
          \/ pc' \in {"for", "prompt"}
    /\ (pc = "for" /\ pc' # pc) =>
          (pc' = "done" \/ (idx' = idx + 1 /\ candidates' = candidates))

ProbeBounded ==
    /\ reads <= 20 /\ count <= 20 /\ loop <= 3
    /\ EmptyWindows >= 0 /\ EmptyWindows <= 4
    /\ idx <= Len(candidates)

C18_ProbeAndSweepTerminate ==
    /\ []ProbeBounded
    /\ [][ProbeStatementAdvances]_vars
    /\ (pc \in ProbePcs) ~> (pc \notin ProbePcs)
    /\ <>[](pc = "done" \/ WaitsForOperator)

C18_Witness ==
    /\ pc = "done"
    /\ idx = 2
    /\ idx = Len(candidates)
    /\ reads = 19
    /\ polls = 23
    /\ loop = 3
    /\ lastlog = "No data received using the following baudrate value"

(***************************************************************************)
(* The reset line between init and the end of run.                         *)
(***************************************************************************)
\* init has returned with a reset line configured.
ResetLineReady ==
    /\ ~reset_pin.none
    /\ \/ pc \in CandidatePcs \cup HandoffPcs \cup {"start", "for"}
       \/ pc = "done" /\ (idx > 0 \/ errAt = <<>> \/ errAt[1] = "start")

\* Between the write of the active level and the write of the inactive one.
InsidePulse == pc \in {"rt_hold", "rt_inactive"}

\* 1 for polarity 'low', 0 for 'high'.
InactiveLevelOfPolarity == IF Upper(advanced_options.reset_pol) = <<"L","O","W">> THEN 1 ELSE 0

\* The write of the inactive level raised and ended the run.
PulseCutShort == pc = "done" /\ errAt # <<>> /\ errAt[1] = "rt_inactive"

(***************************************************************************)
(* C19, as claimed: with a reset line configured, from the end of init on  *)
(* the line is at its inactive level in every state that is not inside a   *)
(* reset pulse.                                                            *)
(***************************************************************************)
C19_InactiveOutsidePulse ==
    (ResetLineReady /\ ~InsidePulse) =>
        (reset_pin.direction = "OUT" /\ reset_pin.status = InactiveLevelOfPolarity)

(***************************************************************************)
(* C19, amended: with a reset line configured, from the end of init on the *)
(* line is an output at its inactive level in every state that is not      *)
(* inside a reset pulse, and so at every polling window, read, trigger     *)
(* emission and prompt -- unless the write that ends a pulse raised: the   *)
(* run has then ended with the line at its active level.                   *)
(***************************************************************************)
C19_InactiveOutsidePulseUnlessCutShort ==
    ResetLineReady =>
        /\ reset_pin.direction = "OUT"
        /\ (~InsidePulse /\ ~PulseCutShort) => reset_pin.status = InactiveLevelOfPolarity
        /\ (InsidePulse \/ PulseCutShort) => reset_pin.status = 1 - InactiveLevelOfPolarity
        /\ pc \in ProbePcs \cup HandoffPcs \cup ChangeBaudratePcs \cup {"start", "for"} =>
              reset_pin.status = InactiveLevelOfPolarity

C19_Witness ==
    /\ pc = "prompt"
    /\ idx = 2
    /\ Upper(advanced_options.reset_pol) = HIGH
    /\ reset_pin.direction = "OUT"
    /\ reset_pin.status = 0
    /\ pulse = <<"status=1", "sleep(reset_hold)", "status=0", "sleep(reset_delay)">>

====
